---- MODULE Spec2Model ----
(***************************************************************************)
(* Model of the two codemod scripts of mpanel:                             *)
(*   fix-catch-blocks.py  (fix_catch_blocks, main)                         *)
(*   fix-ts-errors.py     (fix_controller_returns, main)                   *)
(* A text is a sequence of one-character strings.  The regular expressions *)
(* are modelled by what re.sub does on such a text: a leftmost,            *)
(* non-overlapping scan, greedy quantifiers, and the replacement lambda    *)
(* with its lookback window taken from the string the substitution was     *)
(* given (m.string).                                                       *)
(***************************************************************************)
EXTENDS Integers, Sequences, FiniteSets, TLC

VARIABLES
    tool,       \* which script runs
    disk,       \* the characters each controller file holds on disk
    pc,         \* where the run is
    file_path,  \* the file fix_* is working on (0: none)
    original,   \* fix_*: original
    content,    \* fix_*: content
    fixed,      \* main: fixed / fixed_count
    printed,    \* files for which a "Fixed:" line was printed in this run
    visited,    \* files the rglob loop is done with in this run
    opened,     \* how often each file was opened for writing in this run
    summary,    \* the count of the final "Fixed N files" line (-1: not printed)
    runs,       \* number of runs (TextSpec: applications) so far
    disk0,      \* history: the disk before the first run
    disk_run,   \* history: the disk when the current run started
    text0       \* history: the text before the first application (TextSpec)

vars == <<tool, disk, pc, file_path, original, content, fixed, printed,
          visited, opened, summary, runs, disk0, disk_run, text0>>

(***************************************************************************)
(* Bounds of the model.                                                    *)
(***************************************************************************)
MaxPieces == 4
MaxFilePieces == 1
MaxRuns == 2
MaxApplications == 2
\* the io buffer, scaled to the model's short texts
BufferSize == 16

(***************************************************************************)
(* Text literals of the source.                                            *)
(***************************************************************************)
KEYWORD == <<"r","e","t","u","r","n">>
KEYWORD_SP == <<"r","e","t","u","r","n"," ">>
NEXT_ERROR == <<"n","e","x","t","(","e","r","r","o","r",")",";">>
RES_JSON == <<"r","e","s",".","j","s","o","n","(">>
RES_STATUS == <<"r","e","s",".","s","t","a","t","u","s","(">>
CLOSE_JSON == <<")",".","j","s","o","n","(">>

CATCH == "fix-catch-blocks.py"
TS == "fix-ts-errors.py"

\* the lookback windows of the two scripts
CatchWindow == 30
TsWindow == 20

Max(S) == CHOOSE x \in S : \A y \in S : y <= x
Min(S) == CHOOSE x \in S : \A y \in S : x <= y

\* \s of Python's re on str, over the characters the model uses
IsSpace(c) == c \in {" ", "\t", "\n", "\r", "\f"}

\* text s holds the literal lit at position i (1-based)
HasAt(s, i, lit) ==
    /\ i >= 1
    /\ i + Len(lit) - 1 <= Len(s)
    /\ \A k \in 1..Len(lit) : s[i + k - 1] = lit[k]

\* Python's  lit in s[lo-1:hi]  on the 1-based positions lo..hi
Contains(s, lo, hi, lit) ==
    \E i \in lo..(hi - Len(lit) + 1) : HasAt(s, i, lit)

(***************************************************************************)
(* The second group of each pattern, tried at position j: the position     *)
(* just after it, or 0 when it does not match there.                       *)
(*   next_error       next\(error\);                                       *)
(*   res_json         res\.json\(                                          *)
(*   res_status_json  res\.status\([^)]+\)\.json\(                         *)
(***************************************************************************)
StatusArgLens(s, a) ==
    {n \in 1..(Len(s) - a + 1) :
        /\ \A k \in a..(a + n - 1) : s[k] # ")"
        /\ HasAt(s, a + n, CLOSE_JSON)}

Group2End(s, j, rule) ==
    CASE rule = "next_error" ->
            IF HasAt(s, j, NEXT_ERROR) THEN j + Len(NEXT_ERROR) ELSE 0
      [] rule = "res_json" ->
            IF HasAt(s, j, RES_JSON) THEN j + Len(RES_JSON) ELSE 0
      [] rule = "res_status_json" ->
            IF HasAt(s, j, RES_STATUS) /\ StatusArgLens(s, j + Len(RES_STATUS)) # {}
            THEN j + Len(RES_STATUS)
                   + Max(StatusArgLens(s, j + Len(RES_STATUS))) + Len(CLOSE_JSON)
            ELSE 0

\* the pattern written with \s* for \s+: the whitespace may be missing
Group1Lens_Star(s, pos, rule) ==
    {k \in 0..(Len(s) - pos + 1) :
        /\ \A i \in pos..(pos + k - 1) : IsSpace(s[i])
        /\ Group2End(s, pos + k, rule) # 0}

\* lengths of (\s+) at pos after which the second group matches
Group1Lens(s, pos, rule) ==
    IF ~IsSpace(s[pos]) THEN {}
    ELSE {k \in 1..(Len(s) - pos + 1) :
            /\ \A i \in pos..(pos + k - 1) : IsSpace(s[i])
            /\ Group2End(s, pos + k, rule) # 0}

NoMatch == [ok |-> FALSE, start |-> 0, call |-> 0, end |-> 0]

\* the chain pattern grouped as (\s+res\.status\([^)]+\))(\.json\(): its
\* second group starts at .json(
MatchAt_SplitAtJson(s, pos, rule) ==
    IF Group1Lens(s, pos, rule) = {} THEN NoMatch
    ELSE LET k == Max(Group1Lens(s, pos, rule))
             e == Group2End(s, pos + k, rule)
         IN [ok |-> TRUE, start |-> pos,
             call |-> IF rule = "res_status_json" THEN e - 6 ELSE pos + k,
             end |-> e]

\* the pattern (\s+)(...) tried at pos: greedy \s+, then the second group
MatchAt(s, pos, rule) ==
    IF Group1Lens(s, pos, rule) = {} THEN NoMatch
    ELSE LET k == Max(Group1Lens(s, pos, rule))
         IN [ok |-> TRUE, start |-> pos, call |-> pos + k,
             end |-> Group2End(s, pos + k, rule)]

\* the guard looking for the keyword with its blank, 'return ' in ...
InWindow_KeywordSpace(s, m, window) ==
    Contains(s, Max({1, m.start - window}), m.start - 1, KEYWORD_SP)

\* the slice taken without max(0, ...): a negative start counts from the end
InWindow_NoClamp(s, m, window) ==
    LET lo0 == m.start - 1 - window
        lo == IF lo0 < 0 THEN Max({0, lo0 + Len(s)}) ELSE lo0
    IN Contains(s, lo + 1, m.start - 1, KEYWORD)

\* 'return' in m.string[max(0, m.start()-window):m.start()]
InWindow(s, m, window) ==
    Contains(s, Max({1, m.start - window}), m.start - 1, KEYWORD)

\* the lambda without m.group(1): 'return ' + m.group(2)
Replacement_DropsGroup1(s, m, window) ==
    IF ~InWindow(s, m, window)
    THEN KEYWORD_SP \o SubSeq(s, m.call, m.end - 1)
    ELSE SubSeq(s, m.start, m.end - 1)

\* the replacement lambda
Replacement(s, m, window) ==
    IF ~InWindow(s, m, window)
    THEN SubSeq(s, m.start, m.call - 1) \o KEYWORD_SP \o SubSeq(s, m.call, m.end - 1)
    ELSE SubSeq(s, m.start, m.end - 1)

\* re.sub(pattern, lambda, s): the scan takes the leftmost match at or after
\* pos, copies the text before it, replaces it, and goes on after its end
RECURSIVE SubFrom(_, _, _, _)
SubFrom(s, pos, rule, window) ==
    LET starts == {p \in pos..Len(s) : MatchAt(s, p, rule).ok}
    IN IF starts = {} THEN SubSeq(s, pos, Len(s))
       ELSE LET m == MatchAt(s, Min(starts), rule)
            IN SubSeq(s, pos, m.start - 1) \o Replacement(s, m, window)
                 \o SubFrom(s, m.end, rule, window)

re_sub(s, rule, window) == SubFrom(s, 1, rule, window)

\* the matches that scan finds (re.finditer of the same pattern)
RECURSIVE MatchesFrom(_, _, _)
MatchesFrom(s, pos, rule) ==
    LET starts == {p \in pos..Len(s) : MatchAt(s, p, rule).ok}
    IN IF starts = {} THEN {}
       ELSE LET m == MatchAt(s, Min(starts), rule)
            IN {m} \cup MatchesFrom(s, m.end, rule)

Matches(s, rule) == MatchesFrom(s, 1, rule)

(***************************************************************************)
(* Input texts: concatenations of at most n pieces.                        *)
(***************************************************************************)
FILLER == <<"l","o","g","(","e","r","r","o","r",".","m","e","s","s","a","g","e",
            ",","e","r","r","o","r",".","i","d",")",";">>
STATUS_404_JSON == <<"r","e","s",".","s","t","a","t","u","s","(","4","0","4",")",
                     ".","j","s","o","n","(">>

CatchPieces == {<<" ">>, <<"\n">>, KEYWORD, NEXT_ERROR, FILLER, <<"/","/">>}
TsPieces == {<<" ">>, <<"\n">>, KEYWORD, RES_JSON, STATUS_404_JSON,
             RES_STATUS, CLOSE_JSON}

RECURSIVE Texts(_, _)
Texts(pieces, n) ==
    IF n = 0 THEN {<<>>}
    ELSE LET shorter == Texts(pieces, n - 1)
         IN shorter \cup {t \o p : t \in shorter, p \in pieces}

Files == {1, 2}

(***************************************************************************)
(* The substitutions as steps (shared by both specifications).             *)
(***************************************************************************)
frame_text == UNCHANGED <<tool, disk, disk0, disk_run, text0, file_path, original,
                          fixed, printed, visited, opened, summary, runs>>

\* fix-catch-blocks.py, lines 13-17
SubNextError ==
    /\ tool = CATCH
    /\ pc = "sub1"
    /\ content' = re_sub(content, "next_error", CatchWindow)
    /\ pc' = "compare"
    /\ frame_text

\* fix-ts-errors.py, lines 18-22
SubResJson ==
    /\ tool = TS
    /\ pc = "sub1"
    /\ content' = re_sub(content, "res_json", TsWindow)
    /\ pc' = "sub2"
    /\ frame_text

\* fix-ts-errors.py, lines 25-29
SubResStatusJson ==
    /\ tool = TS
    /\ pc = "sub2"
    /\ content' = re_sub(content, "res_status_json", TsWindow)
    /\ pc' = "compare"
    /\ frame_text

(***************************************************************************)
(* TextSpec: the rewrite functions on texts, applied again and again.      *)
(***************************************************************************)
TextInit ==
    /\ tool \in {CATCH, TS}
    /\ original \in (IF tool = CATCH THEN Texts(CatchPieces, MaxPieces)
                                     ELSE Texts(TsPieces, MaxPieces))
    /\ content = original
    /\ text0 = original
    /\ pc = "sub1"
    /\ runs = 1
    /\ disk = [f \in Files |-> <<>>]
    /\ disk0 = disk
    /\ disk_run = disk
    /\ file_path = 0
    /\ fixed = 0
    /\ printed = {}
    /\ visited = {}
    /\ opened = [f \in Files |-> 0]
    /\ summary = -1

\* the output of one application is the input of the next (a later run
\* reads what the earlier one wrote)
Reapply ==
    /\ pc = "compare"
    /\ runs < MaxApplications
    /\ original' = content
    /\ content' = content
    /\ pc' = "sub1"
    /\ runs' = runs + 1
    /\ UNCHANGED <<tool, disk, disk0, disk_run, text0, file_path, fixed,
                   printed, visited, opened, summary>>

TextNext ==
    \/ SubNextError
    \/ SubResJson
    \/ SubResStatusJson
    \/ Reapply

TextSpec == TextInit /\ [][TextNext]_vars

(***************************************************************************)
(* Files.  open(file_path, 'r') and open(file_path, 'w') are text mode with *)
(* newline=None: reading turns \r\n and \r into \n, writing turns \n into  *)
(* os.linesep.  The scripts are POSIX scripts (#!/usr/bin/env python3):    *)
(* os.linesep is \n.                                                       *)
(***************************************************************************)
os_linesep == <<"\n">>

\* f.read() of a file that holds the characters b
RECURSIVE UniversalNewlines(_)
UniversalNewlines(b) ==
    LET cr == {i \in 1..Len(b) : b[i] = "\r"}
    IN IF cr = {} THEN b
       ELSE LET i == Min(cr)
                after == IF i < Len(b) /\ b[i + 1] = "\n" THEN i + 2 ELSE i + 1
            IN SubSeq(b, 1, i - 1) \o <<"\n">>
                 \o UniversalNewlines(SubSeq(b, after, Len(b)))

\* the characters f.write(t) puts into the file
RECURSIVE WriteNewlines(_)
WriteNewlines(t) ==
    LET nl == {i \in 1..Len(t) : t[i] = "\n"}
    IN IF nl = {} THEN t
       ELSE SubSeq(t, 1, Min(nl) - 1) \o os_linesep
              \o WriteNewlines(SubSeq(t, Min(nl) + 1, Len(t)))

\* the comparison left out: every file is written back
differs_Always(c, o) == TRUE

\* line 19 / line 31: content != original
differs(c, o) == c # o

\* the pieces a file on disk is made of: a call on a line of its own after
\* a \r\n line end, a call after a blank, a call that has its keyword, an
\* empty line that ends in \r\n
CatchFilePieces == {<<"\r", "\n">> \o NEXT_ERROR,
                    <<" ">> \o NEXT_ERROR,
                    <<" ">> \o KEYWORD_SP \o NEXT_ERROR,
                    <<"\r", "\n">>}
TsFilePieces == {<<"\r", "\n">> \o RES_JSON,
                 <<" ">> \o STATUS_404_JSON,
                 <<" ">> \o KEYWORD_SP \o RES_JSON,
                 <<"\r", "\n">>}

NoOpens == [f \in Files |-> 0]

Init ==
    /\ tool \in {CATCH, TS}
    /\ disk \in [Files -> (IF tool = CATCH THEN Texts(CatchFilePieces, MaxFilePieces)
                                           ELSE Texts(TsFilePieces, MaxFilePieces))]
    /\ disk0 = disk
    /\ disk_run = disk
    /\ pc = "loop"
    /\ file_path = 0
    /\ original = <<>>
    /\ content = <<>>
    /\ fixed = 0
    /\ printed = {}
    /\ visited = {}
    /\ opened = NoOpens
    /\ summary = -1
    /\ runs = 1
    /\ text0 = <<>>

\* the rglob loop hands the next file to fix_*, which reads it (lines 6-9 /
\* lines 11-14)
Read(f) ==
    /\ pc = "loop"
    /\ f \in Files \ visited
    /\ file_path' = f
    /\ content' = UniversalNewlines(disk[f])
    /\ original' = content'
    /\ pc' = "sub1"
    /\ UNCHANGED <<tool, disk, fixed, printed, visited, opened, summary, runs,
                   disk0, disk_run, text0>>

\* content == original: return False, and main goes on with the next file
ReturnFalse ==
    /\ pc = "compare"
    /\ file_path # 0
    /\ ~differs(content, original)
    /\ visited' = visited \cup {file_path}
    /\ file_path' = 0
    /\ pc' = "loop"
    /\ UNCHANGED <<tool, disk, original, content, fixed, printed, opened,
                   summary, runs, disk0, disk_run, text0>>

\* content != original: open(file_path, 'w') truncates the file
OpenWrite ==
    /\ pc = "compare"
    /\ file_path # 0
    /\ differs(content, original)
    /\ disk' = [disk EXCEPT ![file_path] = <<>>]
    /\ opened' = [opened EXCEPT ![file_path] = @ + 1]
    /\ pc' = "write"
    /\ UNCHANGED <<tool, file_path, original, content, fixed, printed, visited,
                   summary, runs, disk0, disk_run, text0>>

\* f.write(content): the text reaches the file buffer by buffer, a leading
\* part of it before the rest
WritePartial ==
    /\ pc = "write"
    /\ \E k \in 1..(Len(WriteNewlines(content)) - 1) :
          /\ k % BufferSize = 0
          /\ disk' = [disk EXCEPT ![file_path] = SubSeq(WriteNewlines(content), 1, k)]
    /\ pc' = "flushing"
    /\ UNCHANGED <<tool, file_path, original, content, fixed, printed, visited,
                   opened, summary, runs, disk0, disk_run, text0>>

\* the with block ends: the file holds the whole text; return True
CloseWrite ==
    /\ pc \in {"write", "flushing"}
    /\ disk' = [disk EXCEPT ![file_path] = WriteNewlines(content)]
    /\ pc' = "returned"
    /\ UNCHANGED <<tool, file_path, original, content, fixed, printed, visited,
                   opened, summary, runs, disk0, disk_run, text0>>

\* main: fixed += 1 and the "Fixed:" line
CountFixed ==
    /\ pc = "returned"
    /\ fixed' = fixed + 1
    /\ printed' = printed \cup {file_path}
    /\ visited' = visited \cup {file_path}
    /\ file_path' = 0
    /\ pc' = "loop"
    /\ UNCHANGED <<tool, disk, original, content, opened, summary, runs,
                   disk0, disk_run, text0>>

\* main: the loop is over, the summary line is printed
PrintSummary ==
    /\ pc = "loop"
    /\ visited = Files
    /\ summary' = fixed
    /\ pc' = "done"
    /\ UNCHANGED <<tool, disk, file_path, original, content, fixed, printed,
                   visited, opened, runs, disk0, disk_run, text0>>

\* the process is stopped where it stands; what it held in memory is gone
Interrupt ==
    /\ pc \notin {"done", "interrupted"}
    /\ pc' = "interrupted"
    /\ file_path' = 0
    /\ original' = <<>>
    /\ content' = <<>>
    /\ fixed' = 0
    /\ printed' = {}
    /\ visited' = {}
    /\ opened' = NoOpens
    /\ UNCHANGED <<tool, disk, summary, runs, disk0, disk_run, text0>>

\* the script is started again
Rerun ==
    /\ pc \in {"done", "interrupted"}
    /\ runs < MaxRuns
    /\ runs' = runs + 1
    /\ disk_run' = disk
    /\ pc' = "loop"
    /\ file_path' = 0
    /\ original' = <<>>
    /\ content' = <<>>
    /\ fixed' = 0
    /\ printed' = {}
    /\ visited' = {}
    /\ opened' = NoOpens
    /\ summary' = -1
    /\ UNCHANGED <<tool, disk, disk0, text0>>

Next ==
    \/ \E f \in Files : Read(f)
    \/ SubNextError
    \/ SubResJson
    \/ SubResStatusJson
    \/ ReturnFalse
    \/ OpenWrite
    \/ WritePartial
    \/ CloseWrite
    \/ CountFixed
    \/ PrintSummary
    \/ Interrupt
    \/ Rerun

Spec == Init /\ [][Next]_vars

(***************************************************************************)
(* Vocabulary of the claims about the rewrite functions.                   *)
(***************************************************************************)
AnySub == SubNextError \/ SubResJson \/ SubResStatusJson

\* the rule and the window of the substitution that runs next
RuleOfStep ==
    IF tool = CATCH THEN "next_error"
    ELSE IF pc = "sub1" THEN "res_json" ELSE "res_status_json"
WindowOfStep == IF tool = CATCH THEN CatchWindow ELSE TsWindow
RulesOf(t) == IF t = CATCH THEN {"next_error"} ELSE {"res_json", "res_status_json"}

\* the keyword occurs in the `window` characters before position start
Lookback(s, start, window) ==
    \E i \in 1..(start - Len(KEYWORD)) :
        /\ i >= start - window
        /\ HasAt(s, i, KEYWORD)

\* matches of s that the guard lets through, and where a match lands in the
\* output when each of them grows by the keyword and one space
Unguarded(s, rule, window) ==
    {m \in Matches(s, rule) : ~Lookback(s, m.start, window)}
OutPosIn(un, m) ==
    m.start + Len(KEYWORD_SP) * Cardinality({n \in un : n.start < m.start})

\* first position of the line that holds position c
LineStart(s, c) == Max({1} \cup {p + 1 : p \in {q \in 1..(c - 1) : s[q] = "\n"}})

\* C1: rewrite(rewrite(T)) = rewrite(T): an application to the output of an
\* earlier application of the same script's rewrite changes nothing.
Idempotence ==
    (pc = "compare" /\ runs >= 2) => content = original

\* C1 witness: the first application inserted something, the second has run
IdempotenceWitness ==
    /\ pc = "compare"
    /\ runs = 2
    /\ original # text0
    /\ content = original

\* a matched call already preceded by the keyword: the keyword ends right
\* where the whitespace before the call begins
PrecededByKeyword(s, m) == HasAt(s, m.start - Len(KEYWORD), KEYWORD)

\* a call token starts at c
CallAt(s, c) ==
    /\ s[c] \in {"n", "r"}
    /\ \/ HasAt(s, c, NEXT_ERROR)
       \/ HasAt(s, c, RES_JSON)
       \/ Group2End(s, c, "res_status_json") # 0

\* position p is followed by one or more whitespace characters that end
\* right before position c
SpaceBetween(s, p, c) == p < c /\ \A i \in p..(c - 1) : IsSpace(s[i])

\* calls of s that carry the keyword twice: keyword, whitespace, keyword,
\* whitespace, call
Doubled(s) ==
    {c \in 1..Len(s) :
        /\ CallAt(s, c)
        /\ \E k2 \in 1..c :
              /\ HasAt(s, k2, KEYWORD)
              /\ SpaceBetween(s, k2 + Len(KEYWORD), c)
              /\ \E k1 \in 1..k2 :
                    /\ HasAt(s, k1, KEYWORD)
                    /\ SpaceBetween(s, k1 + Len(KEYWORD), k2)}

GuardKeeps(s, out, rule, window) ==
    LET ms == Matches(s, rule)
        un == {m \in ms : ~Lookback(s, m.start, window)}
    IN \A m \in ms :
          PrecededByKeyword(s, m) =>
              LET o == OutPosIn(un, m)
              IN SubSeq(out, o, o + (m.end - m.start) - 1)
                   = SubSeq(s, m.start, m.end - 1)

\* C2: in every substitution a matched call that is already preceded by
\* `return` comes out unchanged, and no substitution, in any run, adds a
\* call that carries the keyword twice.
GuardCorrectness ==
    [][AnySub =>
          /\ GuardKeeps(content, content', RuleOfStep, WindowOfStep)
          /\ Cardinality(Doubled(content')) <= Cardinality(Doubled(content))]_vars

\* C2 witness: the rewrite has run over a text with a call that already had
\* the keyword
GuardCorrectnessWitness ==
    /\ pc = "compare"
    /\ \E rule \in RulesOf(tool) : \E m \in Matches(original, rule) :
          PrecededByKeyword(original, m)

\* C3: every `next(error);` after a whitespace run with no `return` in the 30
\* characters before that run comes out as the same run, then
\* `return next(error);`.
InsertedAt(s, out, un, m) ==
    LET o == OutPosIn(un, m)
        ws == m.call - m.start
    IN /\ SubSeq(out, o, o + ws - 1) = SubSeq(s, m.start, m.call - 1)
       /\ HasAt(out, o + ws, KEYWORD_SP \o SubSeq(s, m.call, m.end - 1))
       /\ (o = 1 \/ ~IsSpace(out[o - 1]))

TargetedInsertion ==
    (pc = "compare" /\ tool = CATCH) =>
        LET un == Unguarded(original, "next_error", CatchWindow)
        IN \A m \in un : InsertedAt(original, content, un, m)

\* C3 witness: `  next(error);` has become `  return next(error);`
TargetedInsertionWitness ==
    /\ pc = "compare"
    /\ tool = CATCH
    /\ original = <<" ", " ">> \o NEXT_ERROR
    /\ content = <<" ", " ">> \o KEYWORD_SP \o NEXT_ERROR

\* C4: a matched `res.status(<code>).json(` chain (<code>: one or more
\* characters other than `)`) that the guard of the second substitution lets
\* through gets `return ` once, right before `res`, with the chain itself
\* untouched; no substitution ever puts the keyword before `.json(`.
DOT_JSON == <<".","j","s","o","n","(">>
NumOcc(s, lit) == Cardinality({i \in 1..Len(s) : HasAt(s, i, lit)})

GuardWindowNeverSuppresses ==
    pc = "compare" =>
        \A rule \in RulesOf(tool) : \A m \in Matches(content, rule) :
            \/ PrecededByKeyword(content, m)
            \/ Contains(content, LineStart(content, m.call), m.call - 1, KEYWORD)

\* occurrences of `next(error);`, those right after whitespace, the start of
\* the whitespace run before one, and those with no keyword in the lookback
Occ(s) == {c \in 1..Len(s) : HasAt(s, c, NEXT_ERROR)}
AfterSpace(s) == {c \in Occ(s) : c > 1 /\ IsSpace(s[c - 1])}
RunStart(s, c) == Min({p \in 1..(c - 1) : SpaceBetween(s, p, c)})
Fixable(s) == {c \in AfterSpace(s) : ~Lookback(s, RunStart(s, c), CatchWindow)}
NewPos(s, c) == c + Len(KEYWORD_SP) * Cardinality({d \in Fixable(s) : d < c})
OnlySpaceFromLineStart(s, c) == \A i \in LineStart(s, c)..(c - 1) : IsSpace(s[i])

\* C9 as stated: fix_catch_blocks inserts `return ` before `next(error);` only
\* where nothing but whitespace stands between the line start and the call.
LineStartRestriction ==
    (pc = "compare" /\ tool = CATCH) =>
        \A c \in AfterSpace(original) :
            HasAt(content, NewPos(original, c), KEYWORD_SP \o NEXT_ERROR)
                => OnlySpaceFromLineStart(original, c)

\* C9 as amended: fix_catch_blocks matches `next(error);` exactly where one or
\* more whitespace characters stand right before it, anywhere on a line, and
\* inserts `return ` there unless the guard drops the match; an occurrence
\* right after a non-whitespace character, or at the start of the text, is
\* never rewritten.
PrecedingWhitespaceRestriction ==
    (pc = "compare" /\ tool = CATCH) =>
        /\ Len(content) = Len(original)
                            + Len(KEYWORD_SP) * Cardinality(Fixable(original))
        /\ \A c \in Fixable(original) :
              HasAt(content, NewPos(original, c), KEYWORD_SP \o NEXT_ERROR)
        /\ \A c \in Occ(original) \ AfterSpace(original) :
              /\ HasAt(content, NewPos(original, c), NEXT_ERROR)
              /\ c > 1 => content[NewPos(original, c) - 1] = original[c - 1]

\* C9 witness: one call after other text and a blank on its line was
\* rewritten, one call right after a non-whitespace character was not
PrecedingWhitespaceWitness ==
    /\ pc = "compare"
    /\ tool = CATCH
    /\ \E c \in Fixable(original) : ~OnlySpaceFromLineStart(original, c)
    /\ \E c \in Occ(original) \ AfterSpace(original) : c > 1

\* the // comments of a text, in order: each from its // to the end of its line
SLASHES == <<"/","/">>
CommentStarts(s) ==
    {p \in 1..Len(s) :
        /\ HasAt(s, p, SLASHES)
        /\ ~Contains(s, LineStart(s, p), p, SLASHES)}
LineEnd(s, p) == Min({Len(s)} \cup {q - 1 : q \in {r \in p..Len(s) : s[r] = "\n"}})
Nth(S, k) == CHOOSE p \in S : Cardinality({q \in S : q < p}) = k - 1
CommentsOf(s) ==
    [k \in 1..Cardinality(CommentStarts(s)) |->
        LET p == Nth(CommentStarts(s), k) IN SubSeq(s, p, LineEnd(s, p))]

\* C10: nothing inside a comment (or a string literal) is matched: the
\* comments of the rewritten text are those of the text it was made from.
NoMatchInsideLiterals ==
    pc = "compare" => CommentsOf(content) = CommentsOf(original)

(***************************************************************************)
(* Vocabulary of the claims about the files.                               *)
(***************************************************************************)
\* the text a script makes of the text it read
Rewritten(t, text) ==
    IF t = CATCH THEN re_sub(text, "next_error", CatchWindow)
    ELSE re_sub(re_sub(text, "res_json", TsWindow), "res_status_json", TsWindow)

\* what a file holds after an undisturbed run over it
AfterRun(t, b) ==
    IF Rewritten(t, UniversalNewlines(b)) # UniversalNewlines(b)
    THEN WriteNewlines(Rewritten(t, UniversalNewlines(b)))
    ELSE b

Overwritten == {f \in Files : opened[f] >= 1}

\* C5: a file is opened for writing, counted and printed as fixed exactly when
\* its rewritten text differs from the text read, and at most once; a file
\* whose text comes out equal is left as it was on disk; the count of the
\* summary line is the number of files overwritten.
NoWriteOnNoChange ==
    /\ \A f \in Files : opened[f] <= 1
    /\ \A f \in visited :
          LET read == UniversalNewlines(disk_run[f])
          IN /\ opened[f] = 1 <=> Rewritten(tool, read) # read
             /\ opened[f] = 1 <=> f \in printed
             /\ opened[f] = 0 => disk[f] = disk_run[f]
    /\ (pc = "compare" /\ file_path # 0 /\ content = original)
          => opened[file_path] = 0
    /\ fixed = Cardinality(printed)
    /\ pc = "done" => summary = Cardinality(Overwritten)

\* C5 witness: a run is over in which one file was overwritten and counted
\* and the other, whose text came out equal, was not
NoWriteOnNoChangeWitness ==
    /\ pc = "done"
    /\ summary = 1
    /\ \E f \in Files : opened[f] = 1 /\ f \in printed
    /\ \E f \in Files : opened[f] = 0 /\ disk[f] = disk_run[f] /\ disk[f] # <<>>

\* the text s with `return ` put in right before each position of X
RECURSIVE InsertAt(_, _)
InsertAt(s, X) ==
    IF X = {} THEN s
    ELSE LET c == Max(X)
         IN InsertAt(SubSeq(s, 1, c - 1), X \ {c}) \o KEYWORD_SP
              \o SubSeq(s, c, Len(s))

\* C6: what is written back is what was on disk with nothing but `return `
\* put in right before call tokens.
ByteIdenticalOutsideInsertions ==
    \A f \in visited :
        opened[f] = 1 =>
            \E X \in SUBSET {c \in 1..Len(disk_run[f]) : CallAt(disk_run[f], c)} :
                disk[f] = InsertAt(disk_run[f], X)

\* C7: when a run is interrupted every file holds its whole original text or
\* its whole rewritten text, and a complete later run leaves every file as a
\* first undisturbed run would have.
WriteAtomicUnderInterruption ==
    /\ pc = "interrupted" =>
          \A f \in Files : disk[f] \in {disk0[f], AfterRun(tool, disk0[f])}
    /\ pc = "done" =>
          \A f \in Files : disk[f] = AfterRun(tool, disk0[f])

====
